---- MODULE Spec2Model ----
(***************************************************************************)
(* Snowflake identifier generator (snowflake-id-rs).                       *)
(*                                                                         *)
(* SnowflakeState::new / to_i64 / get_time_since_epoch / generate_id from  *)
(* common.rs, decompose_snowflake from decompose.rs and the lock adapters  *)
(* of single_thread.rs and multi_thread.rs.                                *)
(*                                                                         *)
(* An i64 is kept at its full width.  TLC's integers are 32 bits wide, so  *)
(* an i64 is held as three limbs <<a, b, c>> standing for                  *)
(*        a * 2^44 + b * 2^22 + c                                          *)
(* with b, c in 0 .. 2^22-1; a value is in the range of i64 iff its top    *)
(* limb a is in -2^19 .. 2^19-1.                                           *)
(***************************************************************************)
EXTENDS Integers, Sequences, FiniteSets, TLC

----------------------------------------------------------------------------
(* Bounds of the model                                                     *)

\* The monotonic clock is followed for this many milliseconds after the
\* Instant was taken.
MaxElapsed == 2

\* Longest oversleep of thread::sleep(1 ms), in milliseconds beyond the one
\* requested.
MaxOversleep == 1

\* generate_id calls each concurrent caller makes.
MaxCalls == 2

\* Steps followed of a task that runs beside the callers.
MaxProgress == 1

----------------------------------------------------------------------------
(* 64-bit two's-complement arithmetic on limbs                             *)

\* F(v), with v evaluated once (a local binding, `let x = v;`).
With(v, F(_)) == CHOOSE r \in {F(x) : x \in {v}} : TRUE

LIMB == 2^22
TOP == 2^19

\* The exact integer a*2^44 + b*2^22 + c, for any b and c, with b and c
\* brought back into 0 .. LIMB-1 (the top limb is not reduced).
Norm(a, b, c) ==
  LET c1 == c % LIMB
      b0 == b + ((c - c1) \div LIMB)
      b1 == b0 % LIMB
  IN  <<a + ((b0 - b1) \div LIMB), b1, c1>>

\* Does the exact integer fit an i64?
Fits(x) == x[1] >= -TOP /\ x[1] < TOP

\* The exact integer reduced modulo 2^64 into the range of i64.
Wrap(x) == <<((x[1] + TOP) % (2 * TOP)) - TOP, x[2], x[3]>>

AddExact(x, y) == Norm(x[1] + y[1], x[2] + y[2], x[3] + y[3])
SubExact(x, y) == Norm(x[1] - y[1], x[2] - y[2], x[3] - y[3])

Lt(x, y) ==
  \/ x[1] < y[1]
  \/ x[1] = y[1] /\ x[2] < y[2]
  \/ x[1] = y[1] /\ x[2] = y[2] /\ x[3] < y[3]

Le(x, y) == x = y \/ Lt(x, y)

I64_ZERO == <<0, 0, 0>>
I64_MAX == <<TOP - 1, LIMB - 1, LIMB - 1>>
I64_MIN == <<-TOP, 0, 0>>

\* A small non-negative number as an i64 (u16 as i64, u128 millis as i64).
FromNat(n) == Norm(0, 0, n)

\* m & n and m | n on w-bit unsigned numbers.  Where one side is all zeros
\* (or, for &, all ones) the answer is read off; otherwise the upper and the
\* lower half of the bits are combined separately.
RECURSIVE BitAnd(_, _, _)
BitAnd(m, n, w) ==
  IF m = 0 \/ n = 0 THEN 0
  ELSE IF n = 2^w - 1 THEN m
  ELSE IF m = 2^w - 1 THEN n
  ELSE LET h == w \div 2
       IN  BitAnd(m \div 2^h, n \div 2^h, w - h) * 2^h + BitAnd(m % 2^h, n % 2^h, h)

RECURSIVE BitOr(_, _, _)
BitOr(m, n, w) ==
  IF m = 0 THEN n
  ELSE IF n = 0 THEN m
  ELSE IF w = 1 THEN 1
  ELSE LET h == w \div 2
       IN  BitOr(m \div 2^h, n \div 2^h, w - h) * 2^h + BitOr(m % 2^h, n % 2^h, h)

\* The top limb as 20 unsigned bits, and back.
U20(a) == a % (2 * TOP)
S20(u) == IF u >= TOP THEN u - 2 * TOP ELSE u

\* x & y and x | y on i64.
And64(x, y) ==
  With(<<x, y>>, LAMBDA p :
    << S20(BitAnd(U20(p[1][1]), U20(p[2][1]), 20)),
       BitAnd(p[1][2], p[2][2], 22),
       BitAnd(p[1][3], p[2][3], 22) >>)
Or64(x, y) ==
  With(<<x, y>>, LAMBDA p :
    << S20(BitOr(U20(p[1][1]), U20(p[2][1]), 20)),
       BitOr(p[1][2], p[2][2], 22),
       BitOr(p[1][3], p[2][3], 22) >>)

\* x << n on i64, 0 <= n <= 22: the bits shifted past bit 63 are lost (a
\* shift by less than the width never panics in Rust, in any build).
Shl(x, n) ==
  LET keep == 2^(22 - n)
      hi == IF n >= 20 THEN 0 ELSE (U20(x[1]) % (2^(20 - n))) * (2^n)
  IN  << S20((hi + (x[2] \div keep)) % (2 * TOP)),
         (x[2] % keep) * (2^n) + (x[3] \div keep),
         (x[3] % keep) * (2^n) >>

\* x >> n on i64 (arithmetic shift), 0 <= n <= 22.
Shr(x, n) ==
  LET fill == 2^(22 - n)
      a1 == (x[1] - (x[1] % (2^n))) \div (2^n)
  IN  << a1,
         (x[2] \div (2^n)) + (x[1] % (2^n)) * fill,
         (x[3] \div (2^n)) + (x[2] % (2^n)) * fill >>

----------------------------------------------------------------------------
(* Values chosen for the clocks and the arguments                          *)

\* 2025-11-05T10:40:00Z in milliseconds since UNIX_EPOCH: 1762339200000.
WALL == <<0, 420174, 1711104>>

\* 2^41 - 1: the largest value of a 41-bit timestamp field.
TS41_MAX == <<0, TOP - 1, LIMB - 1>>

\* What SystemTime::now().duration_since(UNIX_EPOCH) gives, as milliseconds:
\* an error (the clock is before UNIX_EPOCH) or a reading.
Clocks == {[ok |-> FALSE, ms |-> I64_ZERO], [ok |-> TRUE, ms |-> WALL]}

\* The epoch argument: 0 (the tests' epoch), the clock reading itself, one
\* millisecond in the future, the far future, 2^41-1 ms in the past,
\* i64::MAX ms in the past and i64::MIN.
Epochs ==
  { I64_ZERO, WALL, AddExact(WALL, FromNat(1)), I64_MAX,
    SubExact(WALL, TS41_MAX), SubExact(WALL, I64_MAX), I64_MIN }

\* The worker_id argument (u16): the tests' worker 1, the last valid value and
\* the first invalid one.
Workers == {1, 1023, 1024}

----------------------------------------------------------------------------
(* common.rs                                                               *)

WORKER_ID_MAX == 1023
SEQUENCE_MAX == 4095
TIMESTAMP_SHIFT == 22
WORKER_SHIFT == 12

\* An i64 + or - whose exact result is x.  With overflow checks (the dev
\* profile) an overflow panics; without them (the release profile) the
\* result wraps.
Checked(x, chk) ==
  IF Fits(x) THEN [panic |-> FALSE, val |-> x]
  ELSE IF chk THEN [panic |-> TRUE, val |-> I64_ZERO]
  ELSE [panic |-> FALSE, val |-> Wrap(x)]

NoState ==
  [ time_since_epoch |-> I64_ZERO, worker_id |-> 0, sequence |-> 0,
    epoch |-> I64_ZERO, instant_timestamp |-> I64_ZERO ]

\* The construction result for arguments that got past the three checks.
Constructed(epoch, worker_id, now, chk) ==
  With(Checked(SubExact(now.ms, epoch), chk), LAMBDA d :
    IF d.panic
      THEN [tag |-> "Panic", state |-> NoState]
      ELSE [ tag |-> "Ok",
             state |-> [ time_since_epoch |-> d.val,
                         instant_timestamp |-> now.ms,
                         worker_id |-> worker_id,
                         epoch |-> epoch,
                         sequence |-> 0 ] ])

\* new with the worker_id check made last, after the clock and epoch checks.
new_worker_checked_last(epoch, worker_id, now, chk) ==
  IF ~now.ok
    THEN [tag |-> "TimeBeforeUnixEpoch", state |-> NoState]
  ELSE IF Lt(now.ms, epoch)
    THEN [tag |-> "EpochInFuture", state |-> NoState]
  ELSE IF worker_id > WORKER_ID_MAX
    THEN [tag |-> "WorkerIdOutOfRange", state |-> NoState]
  ELSE Constructed(epoch, worker_id, now, chk)

\* SnowflakeState::new(epoch, worker_id), `now` being the SystemTime reading.
new(epoch, worker_id, now, chk) ==
  IF worker_id > WORKER_ID_MAX
    THEN [tag |-> "WorkerIdOutOfRange", state |-> NoState]
  ELSE IF ~now.ok
    THEN [tag |-> "TimeBeforeUnixEpoch", state |-> NoState]
  ELSE IF Lt(now.ms, epoch)
    THEN [tag |-> "EpochInFuture", state |-> NoState]
  ELSE Constructed(epoch, worker_id, now, chk)

\* to_i64 with the worker_id left unshifted, on top of the sequence bits.
to_i64_worker_unshifted(s) ==
  And64(Or64(Or64(Shl(s.time_since_epoch, TIMESTAMP_SHIFT), FromNat(s.worker_id)),
             FromNat(s.sequence)),
        I64_MAX)

\* SnowflakeState::to_i64
to_i64(s) ==
  And64(Or64(Or64(Shl(s.time_since_epoch, TIMESTAMP_SHIFT),
                  Shl(FromNat(s.worker_id), WORKER_SHIFT)),
             FromNat(s.sequence)),
        I64_MAX)

\* SnowflakeState::get_time_since_epoch, el being instant.elapsed().as_millis().
get_time_since_epoch(s, el, chk) ==
  LET sum == Checked(AddExact(s.instant_timestamp, FromNat(el)), chk)
  IN  IF sum.panic THEN sum ELSE Checked(SubExact(sum.val, s.epoch), chk)

\* generate_id up to the composition: the clock is read, and the state is
\* moved to a new millisecond or found exhausted (to sleep) or left alone.
begin(s, el, chk) ==
  LET cur == get_time_since_epoch(s, el, chk)
  IN  IF cur.panic THEN [panic |-> TRUE, sleep |-> FALSE, state |-> s]
      ELSE IF s.time_since_epoch = cur.val
        THEN [panic |-> FALSE, sleep |-> s.sequence > SEQUENCE_MAX, state |-> s]
        ELSE [ panic |-> FALSE, sleep |-> FALSE,
               state |-> [s EXCEPT !.time_since_epoch = cur.val, !.sequence = 0] ]

\* generate_id after thread::sleep: the clock is read again.
after_sleep(s, el, chk) ==
  LET cur == get_time_since_epoch(s, el, chk)
  IN  IF cur.panic THEN [panic |-> TRUE, state |-> s]
      ELSE [ panic |-> FALSE,
             state |-> [s EXCEPT !.time_since_epoch = cur.val, !.sequence = 0] ]

\* The sequence advanced by two for each identifier.
increment_by_two(s) == [s EXCEPT !.sequence = @ + 2]

\* self.sequence += 1 (a u16; line 70 resets it before it passes 4096, so the
\* addition never comes near u16::MAX)
increment(s) == [s EXCEPT !.sequence = @ + 1]

\* generate_id, lines 68-78, as one piece: el1 is the elapsed time at the
\* first clock reading and el2 at the reading after the sleep.
advance(s, el1, el2, chk) ==
  With(begin(s, el1, chk), LAMBDA b :
    IF b.sleep
      THEN With(after_sleep(b.state, el2, chk), LAMBDA a :
             [panic |-> a.panic, slept |-> TRUE, state |-> a.state])
      ELSE [panic |-> b.panic, slept |-> FALSE, state |-> b.state])

\* SnowflakeState::generate_id as one call.
generate_id(s, el1, el2, chk) ==
  With(advance(s, el1, el2, chk), LAMBDA a :
    [ panic |-> a.panic,
      slept |-> a.slept,
      id    |-> to_i64(a.state),
      used  |-> a.state,
      state |-> IF a.panic THEN s ELSE increment(a.state) ])

\* How long thread::sleep(1 ms) can take in a call made on s at elapsed time
\* el: at least the millisecond asked for (one choice when the call does not
\* sleep).
Oversleeps(s, el, chk) ==
  IF begin(s, el, chk).sleep THEN 1 .. (1 + MaxOversleep) ELSE {1}

----------------------------------------------------------------------------
(* decompose.rs                                                            *)

WORKER_MASK == 1023
SEQUENCE_MASK == 4095

NoDecomposed == [timestamp |-> I64_ZERO, worker_id |-> 0, sequence |-> 0]

\* decompose_snowflake(id, epoch)
decompose_snowflake(id, epoch, chk) ==
  IF Lt(id, I64_ZERO) THEN [tag |-> "SignBitError", value |-> NoDecomposed]
  ELSE LET ts == Checked(AddExact(Shr(id, TIMESTAMP_SHIFT), epoch), chk)
       IN  IF ts.panic THEN [tag |-> "Panic", value |-> NoDecomposed]
           ELSE [ tag |-> "Ok",
                  value |-> [ timestamp |-> ts.val,
                              worker_id |-> And64(Shr(id, WORKER_SHIFT), FromNat(WORKER_MASK))[3],
                              sequence  |-> And64(id, FromNat(SEQUENCE_MASK))[3] ] ]

----------------------------------------------------------------------------
(* State                                                                   *)

VARIABLES
  overflow_checks,  \* the build: TRUE in the dev profile, FALSE in release
  \* single_thread.rs: one SnowflakeGenerator and its owner
  args,             \* the arguments and the clock reading of new
  status,           \* "none" before new, then new's result
  gen,              \* the SnowflakeState
  elapsed,          \* instant.elapsed().as_millis()
  ret,              \* what the last generate_id returned, and from which fields
  \* multi_thread.rs: generators shared by the callers that hold their clones
  mutex,            \* the adapter: "refcell", "std" or "tokio"
  inner,            \* generator -> the SnowflakeState behind its Arc<Mutex<_>>
  since,            \* instant.elapsed().as_millis(), of every generator
  holder,           \* generator -> the caller holding its lock, or 0
  poisoned,         \* generator -> is its std Mutex poisoned
  pc,               \* caller -> where it is in generate_id
  calls,            \* caller -> generate_id calls it has made
  reg,              \* caller -> its locals: the id composed, from which fields
  log,              \* generator -> the results returned from it, in order
  \* decompose.rs: a call of the free function decompose_snowflake
  decomposed,       \* its arguments and what it returned
  \* the threads of the callers and of the tokio runtime
  executor,         \* caller -> the thread that runs it
  progress          \* steps made by a task that never touches a generator

single == <<args, status, gen, elapsed, ret>>
shared == <<mutex, inner, since, holder, poisoned, pc, calls, reg, log>>
rest == <<decomposed, executor, progress>>
vars == <<overflow_checks, single, shared, rest>>

----------------------------------------------------------------------------
(* single_thread.rs: the single-owner generator from construction on       *)

NoArgs == [epoch |-> I64_ZERO, worker_id |-> 0, now |-> [ok |-> FALSE, ms |-> I64_ZERO]]
NoRet == [kind |-> "none", id |-> I64_ZERO, used |-> NoState, first |-> FALSE, slept |-> FALSE]

NoCall == [called |-> FALSE, id |-> I64_ZERO, epoch |-> I64_ZERO,
           tag |-> "none", value |-> NoDecomposed]

NoRest ==
  /\ decomposed = NoCall
  /\ executor = <<>>
  /\ progress = 0

NoShared ==
  /\ mutex = "none"
  /\ inner = <<>>
  /\ since = 0
  /\ holder = <<>>
  /\ poisoned = <<>>
  /\ pc = <<>>
  /\ calls = <<>>
  /\ reg = <<>>
  /\ log = <<>>

Init ==
  /\ overflow_checks \in BOOLEAN
  /\ args = NoArgs
  /\ status = "none"
  /\ gen = NoState
  /\ elapsed = 0
  /\ ret = NoRet
  /\ NoShared
  /\ NoRest

\* SnowflakeGenerator::new -> SnowflakeState::new
New ==
  /\ status = "none"
  /\ \E epoch \in Epochs, worker_id \in Workers, now \in Clocks :
       \E r \in {new(epoch, worker_id, now, overflow_checks)} :
         /\ args' = [epoch |-> epoch, worker_id |-> worker_id, now |-> now]
         /\ status' = r.tag
         /\ gen' = r.state
  /\ UNCHANGED <<overflow_checks, rest, elapsed, ret, shared>>

\* A millisecond passes on the monotonic clock.
Tick ==
  /\ status = "Ok"
  /\ elapsed < MaxElapsed
  /\ elapsed' = elapsed + 1
  /\ UNCHANGED <<overflow_checks, rest, args, status, gen, ret, shared>>

\* SnowflakeGenerator::generate_id -> SnowflakeState::generate_id
Generate ==
  /\ status = "Ok"
  /\ ret.kind # "panic"
  /\ \E d \in Oversleeps(gen, elapsed, overflow_checks) :
       \E r \in {generate_id(gen, elapsed, elapsed + d, overflow_checks)} :
         /\ r.slept => elapsed + d <= MaxElapsed
         /\ elapsed' = IF r.slept THEN elapsed + d ELSE elapsed
         /\ gen' = r.state
         /\ ret' = IF r.panic
                     THEN [NoRet EXCEPT !.kind = "panic"]
                     ELSE [ kind |-> "id", id |-> r.id, used |-> r.used,
                            first |-> ret.kind = "none", slept |-> r.slept ]
  /\ UNCHANGED <<overflow_checks, rest, args, status, shared>>

Next == New \/ Tick \/ Generate

Spec == Init /\ [][Next]_vars

----------------------------------------------------------------------------
(* decompose.rs: decompose_snowflake called beside a generator             *)

\* The id argument: 0, sequence 1 of worker 1, worker 1023 with sequence
\* 4095, timestamp 1, an identifier with all three fields set (worker 2,
\* sequence 7), i64::MAX,
\* and with the sign bit set -1, -4096 and i64::MIN.
DecomposeIds ==
  { I64_ZERO, <<0, 0, 4097>>, <<0, 0, LIMB - 1>>, <<0, 1, 0>>,
    <<0, 420174, 8199>>, I64_MAX,
    <<-1, LIMB - 1, LIMB - 1>>, <<-1, LIMB - 1, LIMB - 4096>>, I64_MIN }

\* The epoch argument: 0, the clock reading, -1, i64::MAX and i64::MIN.
DecomposeEpochs == {I64_ZERO, WALL, <<-1, LIMB - 1, LIMB - 1>>, I64_MAX, I64_MIN}

\* The generator that exists while decompose_snowflake is called.
Bystander == new(I64_ZERO, 1, [ok |-> TRUE, ms |-> WALL], FALSE)

DecomposeInit ==
  /\ overflow_checks \in BOOLEAN
  /\ args = [epoch |-> I64_ZERO, worker_id |-> 1, now |-> [ok |-> TRUE, ms |-> WALL]]
  /\ status = Bystander.tag
  /\ gen = Bystander.state
  /\ elapsed = 0
  /\ ret = NoRet
  /\ NoShared
  /\ \E id \in DecomposeIds, epoch \in DecomposeEpochs :
       decomposed = [NoCall EXCEPT !.id = id, !.epoch = epoch]
  /\ executor = <<>>
  /\ progress = 0

\* decompose_snowflake(id, epoch): a free function of its two arguments.
Decompose ==
  /\ ~decomposed.called
  /\ \E r \in {decompose_snowflake(decomposed.id, decomposed.epoch, overflow_checks)} :
       decomposed' = [decomposed EXCEPT !.called = TRUE, !.tag = r.tag, !.value = r.value]
  /\ UNCHANGED <<overflow_checks, single, shared, executor, progress>>

DecomposeNext == Decompose

SpecDecompose == DecomposeInit /\ [][DecomposeNext]_vars

----------------------------------------------------------------------------
(* multi_thread.rs: generators behind Arc<Mutex<_>> and their callers      *)

Callers == {1, 2}

\* The generators are built in the same millisecond, at the clock reading
\* WALL, with one of these epochs: 0, 2^41-1 ms in the past, i64::MAX ms in the past.
SharedEpochs == {I64_ZERO, SubExact(WALL, TS41_MAX), SubExact(WALL, I64_MAX)}

\* A clone that copies the state into an allocation of its own.
clone_deep(h) == h + 1

\* Clone for a handle: h stands for the allocation behind the Rc or Arc, and
\* inner.clone() is a pointer to the same allocation.
clone(h) == h

\* Who holds what.  "clones": caller 1 holds a generator (worker 1) and
\* caller 2 a clone of the handle.  "workers": each caller holds a generator
\* of its own, with worker_id 0 and 1 (multi_thread.rs tests:
\* MultiThreadedSyncGenerator::new(0, i)).  worker_id[g] is the worker_id of
\* the state in allocation g.
Topologies ==
  { [name |-> "clones", handle |-> <<1, clone(1)>>, worker_id |-> <<1, 1>>],
    [name |-> "workers", handle |-> <<1, 2>>, worker_id |-> <<0, 1>>] }

\* The adapters, by what guards the state: Rc<RefCell<_>> (single_thread.rs),
\* Arc<std::sync::Mutex<_>> and Arc<tokio::sync::Mutex<_>> (multi_thread.rs).
Adapters == {"refcell", "std", "tokio"}

\* Caller -> thread.  The handles of the single-owner adapter are not Send
\* and all live on one thread; the callers of the std adapter are threads;
\* the tasks of the tokio adapter are polled by one runtime thread
\* (current_thread, the runtime of #[tokio::test]) or by a thread each.
Executors(adapter) ==
  IF adapter = "refcell" THEN {[c \in Callers |-> 1]}
  ELSE IF adapter = "std" THEN {[c \in Callers |-> c]}
  ELSE {[c \in Callers |-> 1], [c \in Callers |-> c]}

\* generate_id calls made on a generator, in the millisecond of its
\* construction, before the callers start: none, or all but one of the
\* 4096 that fit a millisecond.
PriorCalls == {0, SEQUENCE_MAX}

\* The state after k generate_id calls made on s in one millisecond, at
\* elapsed time 0 (the identifiers they return are not kept).
RECURSIVE Repeat(_, _, _)
Repeat(s, k, chk) ==
  IF k = 0 THEN s
  ELSE IF k = 1 THEN increment(advance(s, 0, 0, chk).state)
  ELSE With(Repeat(s, k \div 2, chk), LAMBDA v : Repeat(v, k - k \div 2, chk))

\* The result of the last of k >= 1 such calls.
LastOf(s, k, chk) == generate_id(Repeat(s, k - 1, chk), 0, 0, chk)

NoReg == [id |-> I64_ZERO, used |-> NoState, slept_at |-> 0]

Entry(c, kind, id, used) ==
  [caller |-> c, kind |-> kind, id |-> id, used |-> used]

SharedInit ==
  /\ overflow_checks \in BOOLEAN
  /\ args = NoArgs /\ status = "none" /\ gen = NoState /\ elapsed = 0 /\ ret = NoRet
  /\ \E top \in Topologies, epoch \in SharedEpochs, k \in PriorCalls :
       \E made \in { [g \in {top.handle[c] : c \in Callers} |->
                       new(epoch, top.worker_id[g], [ok |-> TRUE, ms |-> WALL],
                           overflow_checks)] } :
         /\ \A g \in DOMAIN made : made[g].tag = "Ok"
         /\ \E prior \in { [g \in DOMAIN made |->
                             IF k = 0
                               THEN [state |-> made[g].state, id |-> I64_ZERO, used |-> NoState]
                               ELSE LastOf(made[g].state, k, overflow_checks)] } :
              /\ inner = [g \in DOMAIN made |-> prior[g].state]
              /\ log = [g \in DOMAIN made |->
                         IF k = 0 THEN <<>>
                         ELSE <<Entry(0, "id", prior[g].id, prior[g].used)>>]
         /\ holder = [g \in DOMAIN made |-> 0]
         /\ poisoned = [g \in DOMAIN made |-> FALSE]
         /\ pc = [c \in Callers |-> [at |-> "idle", gen |-> top.handle[c]]]
  /\ mutex \in Adapters
  /\ executor \in Executors(mutex)
  /\ since = 0
  /\ calls = [c \in Callers |-> 0]
  /\ reg = [c \in Callers |-> NoReg]
  /\ decomposed = NoCall
  /\ progress = 0

\* A lock that is granted although another caller holds it.
AlwaysFree(g) == TRUE

\* Mutex::lock grants the lock of generator g to one caller at a time.
Free(g) == holder[g] = 0

\* The thread of caller c is inside the generate_id call of another caller
\* (a call runs from the lock to the return without yielding the thread), or
\* it died in the panic of one (a task's panic leaves a tokio thread alive).
Busy(c) ==
  \E d \in Callers \ {c} :
    /\ executor[d] = executor[c]
    /\ \/ pc[d].at \notin {"idle", "panicked"}
       \/ pc[d].at = "panicked" /\ mutex # "tokio"

\* A lock that is taken although the mutex is poisoned (the guard is
\* recovered from the PoisonError and used).
LockIgnoringPoison(c) ==
  /\ pc[c].at = "idle"
  /\ calls[c] < MaxCalls
  /\ ~Busy(c)
  /\ Free(pc[c].gen)
  /\ holder' = [holder EXCEPT ![pc[c].gen] = c]
  /\ pc' = [pc EXCEPT ![c].at = "locked"]
  /\ UNCHANGED <<overflow_checks, rest, single, mutex, inner, since, poisoned, calls, reg, log>>

\* self.inner.lock(): the caller takes the lock.
Lock(c) ==
  /\ pc[c].at = "idle"
  /\ calls[c] < MaxCalls
  /\ ~Busy(c)
  /\ Free(pc[c].gen)
  /\ ~poisoned[pc[c].gen]
  /\ holder' = [holder EXCEPT ![pc[c].gen] = c]
  /\ pc' = [pc EXCEPT ![c].at = "locked"]
  /\ UNCHANGED <<overflow_checks, rest, single, mutex, inner, since, poisoned, calls, reg, log>>

\* self.inner.lock() on a poisoned std Mutex: generate_id returns
\* Err(PoisonError) (map_err, then ?).
LockPoisoned(c) ==
  /\ pc[c].at = "idle"
  /\ calls[c] < MaxCalls
  /\ Free(pc[c].gen)
  /\ poisoned[pc[c].gen]
  /\ calls' = [calls EXCEPT ![c] = @ + 1]
  /\ log' = [log EXCEPT ![pc[c].gen] = Append(@, Entry(c, "PoisonError", I64_ZERO, NoState))]
  /\ UNCHANGED <<overflow_checks, rest, single, mutex, inner, since, holder, poisoned, pc, reg>>

\* A panic inside the call unwinds through the guard: the lock is released,
\* and a std Mutex is left poisoned (a tokio Mutex is not).
Unwind(c) ==
  /\ pc' = [pc EXCEPT ![c].at = "panicked"]
  /\ holder' = [holder EXCEPT ![pc[c].gen] = 0]
  /\ poisoned' = [poisoned EXCEPT ![pc[c].gen] = (mutex = "std")]
  /\ UNCHANGED <<inner, reg>>

\* guard.generate_id(), lines 68-78: the clock is read and compared.
Begin(c) ==
  /\ pc[c].at = "locked"
  /\ \E r \in {begin(inner[pc[c].gen], since, overflow_checks)} :
       IF r.panic THEN Unwind(c)
       ELSE /\ inner' = [inner EXCEPT ![pc[c].gen] = r.state]
            /\ pc' = [pc EXCEPT ![c].at = IF r.sleep THEN "sleeping" ELSE "ready"]
            /\ reg' = IF r.sleep THEN [reg EXCEPT ![c].slept_at = since] ELSE reg
            /\ UNCHANGED <<holder, poisoned>>
  /\ UNCHANGED <<overflow_checks, rest, single, mutex, since, calls, log>>

\* thread::sleep(1 ms) returns, at least a millisecond later, and the clock
\* is read again (lines 71-73).
Wake(c) ==
  /\ pc[c].at = "sleeping"
  /\ since > reg[c].slept_at
  /\ \E r \in {after_sleep(inner[pc[c].gen], since, overflow_checks)} :
       IF r.panic THEN Unwind(c)
       ELSE /\ inner' = [inner EXCEPT ![pc[c].gen] = r.state]
            /\ pc' = [pc EXCEPT ![c].at = "ready"]
            /\ UNCHANGED <<holder, poisoned, reg>>
  /\ UNCHANGED <<overflow_checks, rest, single, mutex, since, calls, log>>

\* let id = self.to_i64() (line 79)
Compose(c) ==
  /\ pc[c].at = "ready"
  /\ reg' = [reg EXCEPT ![c].id = to_i64(inner[pc[c].gen]),
                        ![c].used = inner[pc[c].gen]]
  /\ pc' = [pc EXCEPT ![c].at = "composed"]
  /\ UNCHANGED <<overflow_checks, rest, single, mutex, inner, since, holder, poisoned, calls, log>>

\* self.sequence += 1; id (lines 81-82), and the guard is dropped.
Return(c) ==
  /\ pc[c].at = "composed"
  /\ inner' = [inner EXCEPT ![pc[c].gen] = increment(@)]
  /\ holder' = [holder EXCEPT ![pc[c].gen] = 0]
  /\ log' = [log EXCEPT ![pc[c].gen] = Append(@, Entry(c, "id", reg[c].id, reg[c].used))]
  /\ calls' = [calls EXCEPT ![c] = @ + 1]
  /\ pc' = [pc EXCEPT ![c].at = "idle"]
  /\ UNCHANGED <<overflow_checks, rest, single, mutex, since, poisoned, reg>>

\* A millisecond passes on the monotonic clock.
SharedTick ==
  /\ since < MaxElapsed
  /\ since' = since + 1
  /\ UNCHANGED <<overflow_checks, rest, single, mutex, inner, holder, poisoned, pc, calls, reg, log>>

SharedNext ==
  \/ \E c \in Callers : Lock(c)
  \/ \E c \in Callers : LockPoisoned(c)
  \/ \E c \in Callers : Begin(c)
  \/ \E c \in Callers : Wake(c)
  \/ \E c \in Callers : Compose(c)
  \/ \E c \in Callers : Return(c)
  \/ SharedTick

SpecShared == SharedInit /\ [][SharedNext]_vars

\* The callers under a scheduler that keeps every thread and task running,
\* a clock that keeps advancing and a lock that is handed to every caller
\* that keeps asking for it.
FairShared ==
  /\ SharedInit /\ [][SharedNext]_vars
  /\ WF_vars(SharedTick)
  /\ \A c \in Callers :
       /\ SF_vars(Lock(c))
       /\ WF_vars(LockPoisoned(c))
       /\ WF_vars(Begin(c))
       /\ WF_vars(Wake(c))
       /\ WF_vars(Compose(c))
       /\ WF_vars(Return(c))

----------------------------------------------------------------------------
(* multi_thread.rs: the tokio adapter, with one more task on the runtime   *)

\* The threads of the runtime: any of them may poll a ready task.
RuntimeThreads == {executor[c] : c \in Callers}

\* Thread t is inside the generate_id call of a task.  The call is not
\* async below lock().await, so from the lock to the return, the
\* std::thread::sleep of line 71 included, it keeps the thread.
Occupied(t) ==
  \E c \in Callers : executor[c] = t /\ pc[c].at \notin {"idle", "panicked"}

AsyncInit ==
  /\ SharedInit
  /\ mutex = "tokio"

\* A ready task that needs no generator is polled by a thread of the
\* runtime that is free, and makes a step.
OtherTask ==
  /\ progress < MaxProgress
  /\ \E t \in RuntimeThreads : ~Occupied(t)
  /\ progress' = progress + 1
  /\ UNCHANGED <<overflow_checks, single, shared, decomposed, executor>>

AsyncNext ==
  \/ \E c \in Callers : Lock(c)
  \/ \E c \in Callers : Begin(c)
  \/ \E c \in Callers : Wake(c)
  \/ \E c \in Callers : Compose(c)
  \/ \E c \in Callers : Return(c)
  \/ SharedTick
  \/ OtherTask

SpecAsync == AsyncInit /\ [][AsyncNext]_vars

----------------------------------------------------------------------------
(* Properties of the single-owner generator                                *)

\* A step in which generate_id returned an identifier.
Returned == ret'.kind = "id" /\ <<gen, ret>>' # <<gen, ret>>

\* C1: each identifier generate_id returns is strictly greater than the one
\* the previous call on the same state returned.
C1_StrictlyIncreasing ==
  [][(ret.kind = "id" /\ Returned) => Lt(ret.id, ret'.id)]_vars

\* The exact integer t * 2^22 + w * 2^12 + s, as an identifier: it is below
\* 2^66 only if the top limb of t is 0, and then its limbs are those of t
\* moved up by one with w and s in the lowest.
ComposedExactly(id, t, w, s) ==
  /\ t[1] = 0
  /\ id = <<t[2], t[3], w * 2^WORKER_SHIFT + s>>

\* C4: an identifier decomposes, with the generator's epoch, to the worker_id
\* and the sequence it was composed from and to the timestamp
\* epoch + last_timestamp.
C4_RoundTrip ==
  ret.kind = "id" =>
    \E d \in {decompose_snowflake(ret.id, gen.epoch, overflow_checks)} :
      /\ d.tag = "Ok"
      /\ d.value.worker_id = gen.worker_id
      /\ d.value.sequence = ret.used.sequence
      /\ d.value.timestamp = AddExact(gen.epoch, ret.used.time_since_epoch)

\* C5: an identifier is non-negative and is exactly
\* last_timestamp * 2^22 + worker_id * 2^12 + sequence.
C5_ExactLayout ==
  ret.kind = "id" =>
    /\ Le(I64_ZERO, ret.id)
    /\ ComposedExactly(ret.id, ret.used.time_since_epoch,
                       ret.used.worker_id, ret.used.sequence)

\* C7: with worker_id > 1023 new fails with WorkerIdOutOfRange and creates
\* no state, whatever the epoch and the clock.
C7_WorkerIdOutOfRange ==
  (status # "none" /\ args.worker_id > WORKER_ID_MAX) =>
    (status = "WorkerIdOutOfRange" /\ gen = NoState)

\* C7 happens: worker_id > 1023 was rejected although the epoch is in the
\* future of a usable clock.
C7_Witness ==
  /\ status = "WorkerIdOutOfRange"
  /\ args.worker_id > WORKER_ID_MAX
  /\ args.now.ok
  /\ Lt(args.now.ms, args.epoch)

\* The arguments of new were a valid worker_id and an epoch that is not
\* after the reading of a usable clock.
ValidArgs ==
  /\ status # "none"
  /\ args.worker_id <= WORKER_ID_MAX
  /\ args.now.ok
  /\ Le(args.epoch, args.now.ms)

\* C8: with valid arguments new succeeds and the first identifier
\* decomposes to the worker_id given.
C8_ValidConstruction ==
  ValidArgs =>
    /\ status = "Ok"
    /\ (ret.kind = "id" /\ ret.first) =>
         \E d \in {decompose_snowflake(ret.id, args.epoch, overflow_checks)} :
           d.tag = "Ok" /\ d.value.worker_id = args.worker_id

\* C9: with a valid worker_id and a usable clock new fails with
\* EpochInFuture exactly when epoch > clock reading, and otherwise leaves
\* last_timestamp = clock reading - epoch >= 0 and sequence = 0.
C9_EpochCheck ==
  (status # "none" /\ args.worker_id <= WORKER_ID_MAX /\ args.now.ok) =>
    /\ status = "EpochInFuture" <=> Lt(args.now.ms, args.epoch)
    /\ (~Lt(args.now.ms, args.epoch) /\ ret.kind = "none") =>
         /\ status = "Ok"
         /\ gen.time_since_epoch = SubExact(args.now.ms, args.epoch)
         /\ Le(I64_ZERO, gen.time_since_epoch)
         /\ gen.sequence = 0

\* C10: new returns a state or one of its three errors, it never panics, and
\* the subtraction clock reading - epoch keeps its exact value.
C10_NoPanic ==
  /\ status \in {"none", "Ok", "WorkerIdOutOfRange", "EpochInFuture", "TimeBeforeUnixEpoch"}
  /\ (status = "Ok" /\ ret.kind = "none") =>
       gen.time_since_epoch = SubExact(args.now.ms, args.epoch)

\* C15: a generate_id call never leaves last_timestamp (time_since_epoch)
\* smaller than it found it.
C15_TimestampMonotone ==
  [][(status = "Ok" /\ status' = "Ok") =>
       Le(gen.time_since_epoch, gen'.time_since_epoch)]_vars

\* The timestamp field of an identifier: its bits 22 .. 62.
TimestampField(id) == Shr(id, TIMESTAMP_SHIFT)

\* C16: a call that finds the sequence of the current millisecond used up
\* waits at least a millisecond and returns an identifier composed from a
\* strictly larger last_timestamp and sequence 0, whose timestamp field is
\* strictly greater than that of the identifier before it; and no returned
\* identifier carries a sequence beyond 4095 or another worker field than
\* the worker_id.
C16_Rollover ==
  [][Returned =>
       /\ \E d \in {decompose_snowflake(ret'.id, gen.epoch, overflow_checks)} :
            /\ d.tag = "Ok"
            /\ d.value.worker_id = gen.worker_id
            /\ d.value.sequence = ret'.used.sequence
            /\ ret'.used.sequence <= SEQUENCE_MAX
       /\ (gen.sequence > SEQUENCE_MAX /\ gen'.time_since_epoch # gen.time_since_epoch
             /\ ~ret'.slept) => gen'.sequence = 1
       /\ ret'.slept =>
            /\ elapsed' > elapsed
            /\ Lt(gen.time_since_epoch, gen'.time_since_epoch)
            /\ ret'.used.sequence = 0
            /\ gen'.sequence = 1
            /\ ret.kind = "id" /\ ret.used.sequence = SEQUENCE_MAX
            /\ Lt(TimestampField(ret.id), TimestampField(ret'.id))
    ]_vars

\* The clock reading a generate_id call makes now is below last_timestamp.
Regressed ==
  \E cur \in {get_time_since_epoch(gen, elapsed, overflow_checks)} :
    ~cur.panic /\ Lt(cur.val, gen.time_since_epoch)

\* C17: a call that reads a time below last_timestamp, with the sequence not
\* used up, leaves last_timestamp as it is, does not reset the sequence and
\* composes its identifier in the millisecond of last_timestamp.
C17_ClockRegression ==
  [][(Returned /\ Regressed /\ gen.sequence <= SEQUENCE_MAX) =>
       /\ gen'.time_since_epoch = gen.time_since_epoch
       /\ ret'.used.time_since_epoch = gen.time_since_epoch
       /\ ret'.used.sequence = gen.sequence
       /\ gen'.sequence = gen.sequence + 1
    ]_vars

\* C19: a call that observes the millisecond of the identifier before it,
\* with the sequence not used up, returns that identifier plus one (the same
\* timestamp and worker bits, the next sequence field); the first identifier
\* of a state and the first of every new millisecond have sequence field 0.
\* (Of an identifier <<a, b, c>> the sequence field is c % 4096 and the bits
\* above it are a, b and c \div 4096.)
C19_NextInMillisecond ==
  [][Returned =>
       /\ ( /\ ret.kind = "id"
            /\ ret'.used.time_since_epoch = ret.used.time_since_epoch
            /\ ~ret'.slept )
          => /\ ret'.id = AddExact(ret.id, FromNat(1))
             /\ <<ret'.id[1], ret'.id[2], ret'.id[3] \div 4096>>
                  = <<ret.id[1], ret.id[2], ret.id[3] \div 4096>>
             /\ ret'.id[3] % 4096 = (ret.id[3] % 4096) + 1
       /\ ( \/ ret.kind # "id"
            \/ ret'.used.time_since_epoch # ret.used.time_since_epoch )
          => ret'.id[3] % 4096 = 0
    ]_vars

\* C19 happens: the 4096th identifier of a millisecond was returned, each of
\* them one greater than the one before.
C19_Witness ==
  /\ ret.kind = "id"
  /\ ~ret.first /\ ~ret.slept
  /\ ret.used.sequence = SEQUENCE_MAX
  /\ ret.id[3] % 4096 = SEQUENCE_MAX

----------------------------------------------------------------------------
(* Properties of the shared generators                                     *)

\* The identifiers returned from generator g, in the order of return.
Ids(g) == SelectSeq(log[g], LAMBDA e : e.kind = "id")

\* C2: the identifiers returned to the concurrent callers of one generator
\* are pairwise distinct.
C2_Unique ==
  \A g \in DOMAIN log :
    \A i, j \in DOMAIN Ids(g) : i < j => Ids(g)[i].id # Ids(g)[j].id

\* C2 happens: both callers of one shared generator have made all their
\* calls, each got identifiers, and the sequence ran out in between.
C2_Witness ==
  /\ pc[1].gen = pc[2].gen
  /\ \A c \in Callers :
       /\ calls[c] = MaxCalls
       /\ \E i \in DOMAIN Ids(pc[c].gen) : Ids(pc[c].gen)[i].caller = c
  /\ Len(Ids(pc[1].gen)) > 2 * MaxCalls - 1
  /\ \E i, j \in DOMAIN Ids(pc[1].gen) :
       /\ i < j
       /\ Ids(pc[1].gen)[i].used.sequence = SEQUENCE_MAX
       /\ Ids(pc[1].gen)[j].used.sequence = 0

\* C3: identifiers of one shared generator increase strictly in the order in
\* which the callers held its lock.
C3_LockOrder ==
  \A g \in DOMAIN log :
    \A i, j \in DOMAIN Ids(g) : i < j => Lt(Ids(g)[i].id, Ids(g)[j].id)

\* C6: generators with one epoch and different worker_ids never return the
\* same identifier, and the worker field of every identifier is the
\* worker_id of its generator.
C6_WorkersDisjoint ==
  /\ \A g \in DOMAIN log : \A i \in DOMAIN Ids(g) :
       \E d \in {decompose_snowflake(Ids(g)[i].id, inner[g].epoch, overflow_checks)} :
         d.tag = "Ok" /\ d.value.worker_id = inner[g].worker_id
  /\ \A g, h \in DOMAIN log :
       (inner[g].epoch = inner[h].epoch /\ inner[g].worker_id # inner[h].worker_id) =>
         \A i \in DOMAIN Ids(g), j \in DOMAIN Ids(h) : Ids(g)[i].id # Ids(h)[j].id

\* C6 happens: two generators with different worker_ids have each returned
\* an identifier composed from the same millisecond and the same sequence.
C6_Witness ==
  /\ DOMAIN log = {1, 2}
  /\ inner[1].worker_id # inner[2].worker_id
  /\ \E i \in DOMAIN Ids(1), j \in DOMAIN Ids(2) :
       /\ Ids(1)[i].caller # 0 /\ Ids(2)[j].caller # 0
       /\ Ids(1)[i].used.time_since_epoch = Ids(2)[j].used.time_since_epoch
       /\ Ids(1)[i].used.sequence = Ids(2)[j].used.sequence

\* C12: once the std Mutex of a generator is poisoned it stays poisoned, no
\* caller gets into generate_id of its state again, every call through any
\* clone returns PoisonError and no identifier, and time_since_epoch and
\* sequence stay as they are.
C12_Poisoned ==
  [][\A g \in DOMAIN poisoned : poisoned[g] =>
       /\ poisoned'[g]
       /\ inner'[g] = inner[g]
       /\ \A c \in Callers : pc[c].gen = g => pc'[c].at \in {"idle", "panicked"}
       /\ \/ log'[g] = log[g]
          \/ \E c \in Callers :
               log'[g] = Append(log[g], Entry(c, "PoisonError", I64_ZERO, NoState))
     ]_vars

\* C12 happens: a caller panicked inside generate_id, and afterwards the
\* other caller, holding a clone, got PoisonError from each of its calls.
C12_Witness ==
  \E c, d \in Callers :
    /\ c # d /\ pc[c].gen = pc[d].gen
    /\ mutex = "std" /\ poisoned[pc[c].gen]
    /\ pc[c].at = "panicked"
    /\ calls[d] = MaxCalls
    /\ Len(SelectSeq(log[pc[d].gen],
                     LAMBDA e : e.kind = "PoisonError" /\ e.caller = d)) > 0

\* C13: the handles obtained by clone lead to the one state of the original:
\* the identifiers returned through all handles are pairwise distinct, and a
\* call through one handle continues the count left by the call before it
\* through another handle (same millisecond: the next sequence).
C13_ClonesShare ==
  /\ \A g, h \in DOMAIN log :
       \A i \in DOMAIN Ids(g), j \in DOMAIN Ids(h) :
         (g # h \/ i # j) => Ids(g)[i].id # Ids(h)[j].id
  /\ \A g \in DOMAIN log :
       \A i \in 1 .. (Len(Ids(g)) - 1) :
         ( /\ Ids(g)[i].caller # Ids(g)[i + 1].caller
           /\ Ids(g)[i].used.time_since_epoch = Ids(g)[i + 1].used.time_since_epoch )
         => Ids(g)[i + 1].used.sequence = Ids(g)[i].used.sequence + 1

\* C13 happens: the caller with the original and the caller with the clone
\* got identifiers in turn within one millisecond, counted by one sequence.
C13_Witness ==
  /\ pc[1].gen = pc[2].gen
  /\ \E i \in 1 .. (Len(Ids(pc[1].gen)) - 2) :
       /\ Ids(pc[1].gen)[i].caller = 1
       /\ Ids(pc[1].gen)[i + 1].caller = 2
       /\ Ids(pc[1].gen)[i + 2].caller = 1
       /\ Ids(pc[1].gen)[i].used.time_since_epoch = Ids(pc[1].gen)[i + 2].used.time_since_epoch
       /\ Ids(pc[1].gen)[i + 2].used.sequence = Ids(pc[1].gen)[i].used.sequence + 2

\* C14: whenever no generate_id call is inside a state (after new and after
\* every completed call), its sequence is within 0 .. 4095.
C14_SequenceBound ==
  \A g \in DOMAIN inner :
    holder[g] = 0 => inner[g].sequence \in 0 .. SEQUENCE_MAX

\* C18: while a task of the tokio adapter is in the rollover wait, a ready
\* task that can only be polled by the thread of the waiting task (and has
\* steps left to make) can make a step.
C18_WaitSuspendsTask ==
  \A c \in Callers :
    ( /\ mutex = "tokio"
      /\ pc[c].at = "sleeping"
      /\ RuntimeThreads = {executor[c]}
      /\ progress < MaxProgress )
    => ENABLED OtherTask

\* Caller c has made all its calls and got an identifier from each.
Received(c) ==
  /\ calls[c] = MaxCalls
  /\ Len(SelectSeq(log[pc[c].gen],
                   LAMBDA e : e.caller = c /\ e.kind = "id")) = MaxCalls

\* A caller is in the rollover wait at the last millisecond the clock is
\* followed to.
ClockExhausted ==
  since = MaxElapsed /\ \E c \in Callers : pc[c].at = "sleeping"

\* C20: a call waits at most once and never goes back to an earlier step,
\* and with the lock of its generator not poisoned every caller eventually
\* gets an identifier from each of its calls (as far as the clock is
\* followed).
C20_Terminates ==
  /\ [][\A c \in Callers :
          /\ pc[c].at = "ready" => pc'[c].at \in {"ready", "composed"}
          /\ pc[c].at = "composed" => pc'[c].at \in {"composed", "idle"}
          /\ pc[c].at = "sleeping" => pc'[c].at \in {"sleeping", "ready", "panicked"}
       ]_vars
  /\ \A c \in Callers :
       <>(Received(c) \/ poisoned[pc[c].gen] \/ ClockExhausted)

----------------------------------------------------------------------------
(* Properties of decompose_snowflake                                       *)

\* C11: decompose_snowflake fails with SignBitError for every id < 0 and
\* every epoch; for every id >= 0 it succeeds with timestamp =
\* (id >> 22) + epoch, worker_id = bits 12..21 and sequence = bits 0..11 of
\* id; and it leaves the generator state as it was.  (Of a non-negative id
\* <<a, b, c>> the value id >> 22 is a * 2^22 + b and the low 22 bits are c.)
C11_Decompose ==
  decomposed.called =>
    /\ gen = Bystander.state
    /\ decomposed.id[1] < 0 => decomposed.tag = "SignBitError"
    /\ decomposed.id[1] >= 0 =>
         /\ decomposed.tag = "Ok"
         /\ decomposed.value.timestamp =
              AddExact(<<0, decomposed.id[1], decomposed.id[2]>>, decomposed.epoch)
         /\ decomposed.value.worker_id = decomposed.id[3] \div 4096
         /\ decomposed.value.sequence = decomposed.id[3] % 4096

====
